---------------------------- MODULE Spec2Model ----------------------------
(***************************************************************************)
(* Forward-checking CSP solver of fcheck.h.                                *)
(*                                                                         *)
(* The module models both engines of the header: the first generation      *)
(* (Var / Constraint / ForwardCheckingStep) and the second generation      *)
(* (Var2 / Constraint2 / ForwardCheckingStep2).  The recursion of the      *)
(* search is unfolded on an explicit call stack; every action is one       *)
(* straight-line piece of the recursive function.                          *)
(*                                                                         *)
(* VarIds are the integers 0..N-1 as in the source.  Array<int> values are *)
(* sequences; the C++ index i is the TLA+ index i+1.                       *)
(***************************************************************************)
EXTENDS Integers, Sequences, FiniteSets, TLC

VARIABLES
    engine,              \* 1: ForwardCheckingStep, 2: ForwardCheckingStep2
    domains2,            \* CSP::domains2 by VarId; for engine 1, CSP::vars[i].domain
    constraints2,        \* CSP::constraints2; for engine 1, CSP::constraints
    vars2,               \* CSP::vars2[vid].linked_constraints; for engine 1, of CSP::vars
    inst_vars,           \* Assignment::inst_vars
    assigned_var_count,  \* Assignment::assigned_var_count
    current_domains,     \* Assignment::current_domains
    saved_domains,       \* Assignment::saved_domains
    stack,               \* activations of ForwardCheckingStep(2), innermost last
    pc,                  \* position of the running activation
    retval               \* value returned by the activation that just ended

vars == << engine, domains2, constraints2, vars2, inst_vars, assigned_var_count,
           current_domains, saved_domains, stack, pc, retval >>

(***************************************************************************)
(* Bounds of the checked models.                                           *)
(***************************************************************************)
MaxVars == 3
MaxCons == 2
MaxVal == 2
MaxOffset == 1
MaxQueens == 4
MaxLiveCons == 1

(***************************************************************************)
(* Program constants.                                                      *)
(***************************************************************************)
UNASSIGNED == -2147483647
INVALID == -1

(***************************************************************************)
(* Domains.                                                                *)
(***************************************************************************)
Values == "Values"
Ranges == "Ranges"

Domain(type, values) == [type |-> type, values |-> values]

\* The half-open interval min..max-1 as an ascending sequence.
RangeSeq(min, max) == [i \in 1..(IF max > min THEN max - min ELSE 0) |-> min + i - 1]

\* The set of the elements of a sequence.
SeqSet(s) == { s[i] : i \in 1..Len(s) }

\* The set of integers a domain encodes, read according to its type.
DomainSet(dom) ==
    IF dom.type = Values
    THEN SeqSet(dom.values)
    ELSE UNION { (dom.values[2 * k - 1]) .. (dom.values[2 * k] - 1) :
                 k \in 1..(Len(dom.values) \div 2) }

AddIntVar2Range(min_val, max_val) == Domain(Ranges, << min_val, max_val + 1 >>)

AddBoolVar2 == Domain(Values, << 0, 1 >>)

AddIntVarRange(min_val, max_val) ==
    Domain(Values, [i \in 1..(max_val + 1 - min_val) |-> min_val + i - 1])

AddBoolVar == Domain(Values, << 0, 1 >>)

\* AddIntVar2(name, Domain) / AddIntVar(name, Domain) with a one-value domain.
FixedVar(v) == Domain(Values, << v >>)

(***************************************************************************)
(* Second-generation constraints.  One record shape for all kinds; the     *)
(* fields a kind does not have hold INVALID / 0.                           *)
(***************************************************************************)
OpEqual == "Equal"
OpNotEqual == "NotEqual"
OpSupEqual == "SupEqual"
OpSup == "Sup"
OpInfEqual == "InfEqual"
OpInf == "Inf"

Con2(kind, v0, v1, v2, v3, op, offset, min, max) ==
    [kind |-> kind, v0 |-> v0, v1 |-> v1, v2 |-> v2, v3 |-> v3,
     op |-> op, offset |-> offset, min |-> min, max |-> max]

OpConstraint2(v0, v1, op, offset) ==
    Con2("Op", v0, v1, INVALID, INVALID, op, offset, 0, 0)
EqualityConstraint2(v0, v1) ==
    Con2("Equality", v0, v1, INVALID, INVALID, OpEqual, 0, 0, 0)
OrEqualityConstraint2(v0, v1, v2) ==
    Con2("OrEquality", v0, v1, v2, INVALID, OpEqual, 0, 0, 0)
CombinedEqualityConstraint2(v0, v1, v2, v3) ==
    Con2("CombinedEquality", v0, v1, v2, v3, OpEqual, 0, 0, 0)
OrRangeConstraint2(v0, v1, min, max) ==
    Con2("OrRange", v0, v1, INVALID, INVALID, OpEqual, 0, min, max)

\* A first-generation Constraint, as AddConstraint / AddConstraintIf /
\* AddConstraintIfNot build it.
Constraint(vid1, op, vid2, const_mul2, const_add2, vid_if, ifnot) ==
    [kind |-> "Constraint", vid1 |-> vid1, op |-> op, vid2 |-> vid2,
     const_mul2 |-> const_mul2, const_add2 |-> const_add2,
     vid_if |-> vid_if, ifnot |-> ifnot]

AddConstraint(vid1, op, vid2, const_mul2, const_add2) ==
    Constraint(vid1, op, vid2, const_mul2, const_add2, INVALID, 0)
AddConstraintIf(vid1, op, vid2, const_mul2, const_add2, vid_if) ==
    Constraint(vid1, op, vid2, const_mul2, const_add2, vid_if, 0)
AddConstraintIfNot(vid1, op, vid2, const_mul2, const_add2, vid_ifnot) ==
    Constraint(vid1, op, vid2, const_mul2, const_add2, vid_ifnot, 1)

\* The overloads taking a constant: "vid1 op const_val", with vid2 = vid1 and
\* const_mul2 = 0.
AddConstraintConst(vid1, op, const_val) ==
    Constraint(vid1, op, vid1, 0, const_val, INVALID, 0)
AddConstraintIfConst(vid1, op, const_val, vid_if) ==
    Constraint(vid1, op, vid1, 0, const_val, vid_if, 0)
AddConstraintIfNotConst(vid1, op, const_val, vid_ifnot) ==
    Constraint(vid1, op, vid1, 0, const_val, vid_ifnot, 1)

\* The variables a constraint pushes itself to, in the order of its LinkVars
\* (second generation) or of PushConstraint (first generation).
LinkVars(c) ==
    CASE c.kind = "Op" -> << c.v0, c.v1 >>
      [] c.kind = "Equality" -> << c.v0, c.v1 >>
      [] c.kind = "OrEquality" -> << c.v0, c.v1, c.v2 >>
      [] c.kind = "CombinedEquality" -> << c.v0, c.v1, c.v2, c.v3 >>
      [] c.kind = "OrRange" -> << c.v0, c.v1 >>
      [] c.kind = "Constraint" ->
           << c.vid1, c.vid2 >> \o (IF c.vid_if # INVALID THEN << c.vid_if >> ELSE << >>)

\* linked_constraints of vid after every constraint of cons was pushed with
\* PushConstraint2 / PushConstraint: indices (1-based) into cons, in push order.
RECURSIVE LinkedConstraints2(_, _, _)
LinkedConstraints2(cons, vid, n) ==
    IF n = 0 THEN << >>
    ELSE LinkedConstraints2(cons, vid, n - 1) \o
         [i \in 1..Cardinality({ k \in 1..Len(LinkVars(cons[n])) :
                                  LinkVars(cons[n])[k] = vid }) |-> n]

Linked2(cons, vid) == LinkedConstraints2(cons, vid, Len(cons))

Evaluate2(c, iv) ==
    CASE c.kind = "Op" ->
           IF c.op = OpEqual THEN iv[c.v0] = iv[c.v1] + c.offset
           ELSE IF c.op = OpNotEqual THEN iv[c.v0] # iv[c.v1] + c.offset
           ELSE FALSE
      [] c.kind = "Equality" -> iv[c.v0] = iv[c.v1]
      [] c.kind = "OrEquality" -> iv[c.v0] = iv[c.v1] \/ iv[c.v0] = iv[c.v2]
      [] c.kind = "CombinedEquality" -> iv[c.v0] = iv[c.v1] + iv[c.v2] - iv[c.v3]
      [] c.kind = "OrRange" ->
           \/ (iv[c.v0] >= c.min /\ iv[c.v0] < c.max)
           \/ (iv[c.v1] >= c.min /\ iv[c.v1] < c.max)

\* TryEvaluate testing v0 and v1 only, whatever the kind.
TryEvaluate2_TwoVars(c, iv) ==
    IF iv[c.v0] # UNASSIGNED /\ iv[c.v1] # UNASSIGNED
    THEN (IF Evaluate2(c, iv) THEN "Passed" ELSE "Failed")
    ELSE "NA"

TryEvaluate2(c, iv) ==
    IF \A k \in 1..Len(LinkVars(c)) : iv[LinkVars(c)[k]] # UNASSIGNED
    THEN (IF Evaluate2(c, iv) THEN "Passed" ELSE "Failed")
    ELSE "NA"

\* ValidateConstraints2 with a loop that returns after its first iteration.
ValidateConstraints2_FirstOnly(cons, linked, iv) ==
    \A k \in 1..Len(linked) : k = 1 => TryEvaluate2(cons[linked[k]], iv) # "Failed"

ValidateConstraints2(cons, linked, iv) ==
    \A k \in 1..Len(linked) : TryEvaluate2(cons[linked[k]], iv) # "Failed"

(***************************************************************************)
(* Saved domains.                                                          *)
(***************************************************************************)
SavedDomain(var_id, type, values) ==
    [var_id |-> var_id, type |-> type, values |-> values]

\* Index in the top frame of the snapshot of vid, 0 when there is none.
FindSaved(sd, vid) ==
    LET top == sd[Len(sd)]
        hits == { d \in 1..Len(top) : top[d].var_id = vid }
    IN  IF hits = {} THEN 0 ELSE CHOOSE d \in hits : \A e \in hits : d <= e

\* FindOrAddSavedDomain without the search of the frame: it always appends.
FindOrAddSavedDomain_Always(sd, vid, dom) ==
    [sd EXCEPT ![Len(sd)] = Append(@, SavedDomain(vid, dom.type, dom.values))]

\* saved_domains after FindOrAddSavedDomain(vid, dom).
FindOrAddSavedDomain(sd, vid, dom) ==
    IF FindSaved(sd, vid) # 0 THEN sd
    ELSE [sd EXCEPT ![Len(sd)] = Append(@, SavedDomain(vid, dom.type, dom.values))]

\* The SavedDomain that FindOrAddSavedDomain(vid, dom) returns a reference to.
SavDom(sd, vid, dom) ==
    LET sd2 == FindOrAddSavedDomain(sd, vid, dom)
    IN  sd2[Len(sd2)][FindSaved(sd2, vid)]

\* RestoreFrom adding the saved values to the list instead of assigning it.
RECURSIVE RestoreFrom_Insert(_, _, _)
RestoreFrom_Insert(cd, frame, d) ==
    IF d > Len(frame) THEN cd
    ELSE RestoreFrom_Insert([cd EXCEPT ![frame[d].var_id] =
                                 Domain(frame[d].type, @.values \o frame[d].values)],
                            frame, d + 1)

RECURSIVE RestoreFrom(_, _, _)
RestoreFrom(cd, frame, d) ==
    IF d > Len(frame) THEN cd
    ELSE RestoreFrom([cd EXCEPT ![frame[d].var_id] =
                          Domain(frame[d].type, frame[d].values)],
                     frame, d + 1)

\* RestoreSavedDomainStep leaving the domains as they are.
RestoreSavedDomainStep_Skip(cd, sd) == cd

\* current_domains after RestoreSavedDomainStep().
RestoreSavedDomainStep(cd, sd) == RestoreFrom(cd, sd[Len(sd)], 1)

(***************************************************************************)
(* Second-generation propagation.  Every operator returns the record       *)
(* [ok, cd, sd]: the value AplyArcConsistency returns and the              *)
(* current_domains and saved_domains it leaves.                            *)
(***************************************************************************)
Arc(ok, cd, sd) == [ok |-> ok, cd |-> cd, sd |-> sd]

Copies(n, x) == [i \in 1..n |-> x]

\* Iterations of "for (r_idx = 0; r_idx < size; r_idx += 2)".
NumRanges(values) == (Len(values) + 1) \div 2

\* The values pushed by the range loops that push oth_val once per interval
\* holding it.
RangesHolding(values, oth_val) ==
    Copies(Cardinality({ k \in 1..NumRanges(values) :
                           values[2 * k - 1] <= oth_val /\ oth_val < values[2 * k] }),
           oth_val)

\* The values pushed by the range loop that keeps every val # oth_val.
RECURSIVE RangesWithout(_, _, _)
RangesWithout(values, oth_val, k) ==
    IF k > NumRanges(values) THEN << >>
    ELSE SelectSeq(RangeSeq(values[2 * k - 1], values[2 * k]),
                   LAMBDA val : oth_val # val)
         \o RangesWithout(values, oth_val, k + 1)

\* Values form, Op::NotEqual: one push of oth_val per saved value that differs.
ValuesNotEqualPush(sav_values, oth_val) ==
    Copies(Len(SelectSeq(sav_values, LAMBDA sv : oth_val # sv)), oth_val)

\* Values form, Op::Equal: one push of oth_val per saved value that equals it.
ValuesEqualPush(sav_values, oth_val) ==
    Copies(Len(SelectSeq(sav_values, LAMBDA sv : oth_val = sv)), oth_val)

\* The lambda DoCheck of OpConstraint2::AplyArcConsistency.
OpDoCheck(cd, sd, v0, oth_val, op) ==
    LET dom == cd[v0]
        sd2 == FindOrAddSavedDomain(sd, v0, dom)
        sav_dom == SavDom(sd, v0, dom)
        pushed ==
            IF dom.type = Values
            THEN IF op = OpEqual
                 THEN ValuesEqualPush(sav_dom.values, oth_val)
                 ELSE ValuesNotEqualPush(sav_dom.values, oth_val)
            ELSE IF op = OpEqual
                 THEN RangesHolding(sav_dom.values, oth_val)
                 ELSE RangesWithout(sav_dom.values, oth_val, 1)
    IN  Arc(pushed # << >>, [cd EXCEPT ![v0] = Domain(Values, pushed)], sd2)

\* OpAplyArcConsistency without the test "v1_val == InstVar::UNASSIGNED".
OpAplyArcConsistency_NoTest(c, iv, cd, sd) ==
    IF iv[c.v0] = UNASSIGNED
    THEN OpDoCheck(cd, sd, c.v0, iv[c.v1] + c.offset, c.op)
    ELSE OpDoCheck(cd, sd, c.v1, iv[c.v0] - c.offset, c.op)

OpAplyArcConsistency(c, iv, cd, sd) ==
    IF iv[c.v0] = UNASSIGNED
    THEN OpDoCheck(cd, sd, c.v0, iv[c.v1] + c.offset, c.op)
    ELSE IF iv[c.v1] = UNASSIGNED
    THEN OpDoCheck(cd, sd, c.v1, iv[c.v0] - c.offset, c.op)
    ELSE Arc(TRUE, cd, sd)

\* The lambda DoCheck of EqualityConstraint2::AplyArcConsistency.
EqualityDoCheck(cd, sd, v0, v1_val) ==
    LET dom == cd[v0]
        sd2 == FindOrAddSavedDomain(sd, v0, dom)
        sav_dom == SavDom(sd, v0, dom)
        pushed ==
            IF dom.type = Values
            THEN ValuesEqualPush(sav_dom.values, v1_val)
            ELSE RangesHolding(sav_dom.values, v1_val)
    IN  Arc(pushed # << >>, [cd EXCEPT ![v0] = Domain(Values, pushed)], sd2)

EqualityAplyArcConsistency(c, iv, cd, sd) ==
    IF iv[c.v0] = UNASSIGNED
    THEN EqualityDoCheck(cd, sd, c.v0, iv[c.v1])
    ELSE IF iv[c.v1] = UNASSIGNED
    THEN EqualityDoCheck(cd, sd, c.v1, iv[c.v0])
    ELSE Arc(TRUE, cd, sd)

\* The range loop of OrEqualityConstraint2: per interval, v1_val if it is in
\* it, then v2_val if it is in it.
RECURSIVE OrEqualityRanges(_, _, _, _)
OrEqualityRanges(values, v1_val, v2_val, k) ==
    IF k > NumRanges(values) THEN << >>
    ELSE (IF values[2 * k - 1] <= v1_val /\ v1_val < values[2 * k]
          THEN << v1_val >> ELSE << >>)
         \o (IF values[2 * k - 1] <= v2_val /\ v2_val < values[2 * k]
             THEN << v2_val >> ELSE << >>)
         \o OrEqualityRanges(values, v1_val, v2_val, k + 1)

OrEqualityAplyArcConsistency(c, iv, cd, sd) ==
    IF iv[c.v0] = UNASSIGNED /\ iv[c.v1] # UNASSIGNED /\ iv[c.v2] # UNASSIGNED
    THEN LET dom == cd[c.v0]
             sd2 == FindOrAddSavedDomain(sd, c.v0, dom)
             sav_dom == SavDom(sd, c.v0, dom)
             pushed ==
                 IF dom.type = Values
                 THEN SelectSeq(sav_dom.values,
                                LAMBDA val : iv[c.v1] = val \/ iv[c.v2] = val)
                 ELSE OrEqualityRanges(sav_dom.values, iv[c.v1], iv[c.v2], 1)
         IN  Arc(pushed # << >>, [cd EXCEPT ![c.v0] = Domain(Values, pushed)], sd2)
    ELSE Arc(TRUE, cd, sd)

\* "int v3_val = a.inst_vars[v2].value;"
CombinedV3Val(c, iv) == iv[c.v2]

CombinedEqualityAplyArcConsistency(c, iv, cd, sd) ==
    LET v3_val == CombinedV3Val(c, iv)
    IN  IF /\ iv[c.v0] = UNASSIGNED /\ iv[c.v1] # UNASSIGNED
           /\ iv[c.v2] # UNASSIGNED /\ v3_val # UNASSIGNED
        THEN LET comb_val == iv[c.v1] + iv[c.v2] - v3_val
                 dom == cd[c.v0]
                 sd2 == FindOrAddSavedDomain(sd, c.v0, dom)
                 sav_dom == SavDom(sd, c.v0, dom)
                 found ==
                     IF dom.type = Values
                     THEN comb_val \in SeqSet(sav_dom.values)
                     ELSE RangesHolding(sav_dom.values, comb_val) # << >>
                 pushed == IF found THEN << comb_val >> ELSE << >>
             IN  Arc(pushed # << >>,
                     [cd EXCEPT ![c.v0] = Domain(Values, pushed)], sd2)
        ELSE Arc(TRUE, cd, sd)

\* The body between "#if 0" and "#endif" of
\* OrRangeConstraint2::AplyArcConsistency, as it would run if compiled in: its
\* DoCheck clears dom.values before iterating it, so it empties the domain.
OrRangeAplyArcConsistency_Enabled(c, iv, cd, sd) ==
    LET DoCheck(v0) ==
            Arc(FALSE, [cd EXCEPT ![v0] = Domain(Values, << >>)],
                FindOrAddSavedDomain(sd, v0, cd[v0]))
    IN  IF iv[c.v0] = UNASSIGNED /\ (iv[c.v1] < c.min \/ iv[c.v1] >= c.max)
        THEN DoCheck(c.v0)
        ELSE IF iv[c.v1] = UNASSIGNED /\ (iv[c.v0] < c.min \/ iv[c.v0] >= c.max)
        THEN DoCheck(c.v1)
        ELSE Arc(TRUE, cd, sd)

\* "return true;" at line 1247; the rest of the body is compiled out.
OrRangeAplyArcConsistency(c, iv, cd, sd) == Arc(TRUE, cd, sd)

\* The virtual call linked_constraints[c_idx]->AplyArcConsistency(a).
AplyArcConsistency2(c, iv, cd, sd) ==
    CASE c.kind = "Op" -> OpAplyArcConsistency(c, iv, cd, sd)
      [] c.kind = "Equality" -> EqualityAplyArcConsistency(c, iv, cd, sd)
      [] c.kind = "OrEquality" -> OrEqualityAplyArcConsistency(c, iv, cd, sd)
      [] c.kind = "CombinedEquality" -> CombinedEqualityAplyArcConsistency(c, iv, cd, sd)
      [] c.kind = "OrRange" -> OrRangeAplyArcConsistency(c, iv, cd, sd)

(***************************************************************************)
(* Assignment.                                                             *)
(***************************************************************************)
\* inst_vars.size()
NumVars == Cardinality(DOMAIN inst_vars)

VarIds == 0 .. (NumVars - 1)

IsComplete == assigned_var_count = NumVars

\* NextUnassignedVar scanning from the last index down.
NextUnassignedVar_Last(iv) ==
    IF \E idx \in DOMAIN iv : iv[idx] = UNASSIGNED
    THEN CHOOSE idx \in DOMAIN iv :
           /\ iv[idx] = UNASSIGNED
           /\ \A j \in DOMAIN iv : iv[j] = UNASSIGNED => idx >= j
    ELSE NumVars

NextUnassignedVar(iv) ==
    IF \E idx \in DOMAIN iv : iv[idx] = UNASSIGNED
    THEN CHOOSE idx \in DOMAIN iv :
           /\ iv[idx] = UNASSIGNED
           /\ \A j \in DOMAIN iv : iv[j] = UNASSIGNED => idx <= j
    ELSE NumVars

AssignVar(vid, val) ==
    /\ inst_vars' = [inst_vars EXCEPT ![vid] = val]
    /\ assigned_var_count' = assigned_var_count + 1

\* UnAssignVar without "assigned_var_count--".
UnAssignVar_NoDecrement(vid) ==
    /\ inst_vars' = [inst_vars EXCEPT ![vid] = UNASSIGNED]
    /\ UNCHANGED assigned_var_count

UnAssignVar(vid) ==
    /\ inst_vars' = [inst_vars EXCEPT ![vid] = UNASSIGNED]
    /\ assigned_var_count' = assigned_var_count - 1

GetInstVarValue(vid) == inst_vars[vid]

(***************************************************************************)
(* Activations.  A frame holds the locals of one ForwardCheckingStep(2)    *)
(* call: vid, the form of dom read at line 815, the loop counters d_idx /  *)
(* r_idx / val, and c_idx / success of the propagation loop.               *)
(***************************************************************************)
Frame(vid, type, d_idx, r_idx, val, c_idx, success) ==
    [vid |-> vid, type |-> type, d_idx |-> d_idx, r_idx |-> r_idx, val |-> val,
     c_idx |-> c_idx, success |-> success]

Top == stack[Len(stack)]

Pop(s) == SubSeq(s, 1, Len(s) - 1)

SetTop(f) == [stack EXCEPT ![Len(stack)] = f]

\* The position of the nested range loops: the interval r_idx and the value
\* val about to be tested against max, moved on to the next interval while
\* val has reached max.  ok is FALSE once the outer loop has ended.
RECURSIVE RangeCursor(_, _, _)
RangeCursor(values, r_idx, val) ==
    IF r_idx >= Len(values) THEN [ok |-> FALSE, r_idx |-> r_idx, val |-> val]
    ELSE IF val < values[r_idx + 2] THEN [ok |-> TRUE, r_idx |-> r_idx, val |-> val]
    ELSE IF r_idx + 2 >= Len(values)
         THEN [ok |-> FALSE, r_idx |-> r_idx + 2, val |-> val]
         ELSE RangeCursor(values, r_idx + 2, values[r_idx + 3])

\* Whether the loop over dom has another candidate, and which.
HasCandidate(f, dom) ==
    IF f.type = Values THEN f.d_idx < Len(dom.values)
    ELSE RangeCursor(dom.values, f.r_idx, f.val).ok

\* AtCandidate with the Values list indexed from its end.
AtCandidate_Reversed(f, dom) ==
    IF f.type = Values THEN [f EXCEPT !.val = dom.values[Len(dom.values) - f.d_idx]]
    ELSE [f EXCEPT !.r_idx = RangeCursor(dom.values, f.r_idx, f.val).r_idx,
                   !.val = RangeCursor(dom.values, f.r_idx, f.val).val]

\* The frame once the loop has fetched its candidate.
AtCandidate(f, dom) ==
    IF f.type = Values THEN [f EXCEPT !.val = dom.values[f.d_idx + 1]]
    ELSE [f EXCEPT !.r_idx = RangeCursor(dom.values, f.r_idx, f.val).r_idx,
                   !.val = RangeCursor(dom.values, f.r_idx, f.val).val]

\* NextCandidate without the increment of the Values loop.
NextCandidate_Stay(f) ==
    IF f.type = Values THEN f ELSE [f EXCEPT !.val = @ + 1]

\* d_idx++ / val++ after LambdaStep returned false.
NextCandidate(f) ==
    IF f.type = Values THEN [f EXCEPT !.d_idx = @ + 1] ELSE [f EXCEPT !.val = @ + 1]

NewFrame(vid, dom) ==
    Frame(vid, dom.type, 0, 0,
          IF dom.type = Ranges /\ Len(dom.values) > 0 THEN dom.values[1] ELSE 0,
          0, TRUE)

(***************************************************************************)
(* First-generation validation and propagation.                            *)
(***************************************************************************)
IsEnforceIf(con) == con.vid_if # INVALID

\* Constraint::Evaluate with Op::Sup compared by >=.
ConstraintEvaluate_SupAsSupEqual(con, vid1_val, vid2_val) ==
    LET rhs == vid2_val * con.const_mul2 + con.const_add2
    IN  CASE con.op = OpEqual -> vid1_val = rhs
          [] con.op = OpNotEqual -> vid1_val # rhs
          [] con.op = OpSupEqual -> vid1_val >= rhs
          [] con.op = OpSup -> vid1_val >= rhs
          [] con.op = OpInfEqual -> vid1_val <= rhs
          [] con.op = OpInf -> vid1_val < rhs

ConstraintEvaluate(con, vid1_val, vid2_val) ==
    LET rhs == vid2_val * con.const_mul2 + con.const_add2
    IN  CASE con.op = OpEqual -> vid1_val = rhs
          [] con.op = OpNotEqual -> vid1_val # rhs
          [] con.op = OpSupEqual -> vid1_val >= rhs
          [] con.op = OpSup -> vid1_val > rhs
          [] con.op = OpInfEqual -> vid1_val <= rhs
          [] con.op = OpInf -> vid1_val < rhs

\* ValidateOne that skips every conditional constraint.
ValidateOne_SkipIf(con, var_id, val, iv) ==
    LET vid1_val == IF var_id = con.vid1 THEN val ELSE iv[con.vid1]
        vid2_val == IF var_id = con.vid2 THEN val ELSE iv[con.vid2]
    IN  IF IsEnforceIf(con)
        THEN TRUE
        ELSE (vid1_val # UNASSIGNED /\ vid2_val # UNASSIGNED)
             => ConstraintEvaluate(con, vid1_val, vid2_val)

\* One iteration of the loop of ValidateConstraints: FALSE is "return false".
ValidateOne(con, var_id, val, iv) ==
    LET vid_if_val == IF var_id = con.vid_if THEN val ELSE iv[con.vid_if]
        vid1_val == IF var_id = con.vid1 THEN val ELSE iv[con.vid1]
        vid2_val == IF var_id = con.vid2 THEN val ELSE iv[con.vid2]
    IN  IF IsEnforceIf(con) /\ (\/ vid_if_val = UNASSIGNED
                                \/ (con.ifnot # 0) = (vid_if_val # 0))
        THEN TRUE
        ELSE (vid1_val # UNASSIGNED /\ vid2_val # UNASSIGNED)
             => ConstraintEvaluate(con, vid1_val, vid2_val)

ValidateConstraints(cons, linked, var_id, val, iv) ==
    \A k \in 1..Len(linked) : ValidateOne(cons[linked[k]], var_id, val, iv)

\* SwapPop without the swap: the last value is dropped.
SwapPop_NoSwap(values, d_idx) == SubSeq(values, 1, Len(values) - 1)

\* "std::swap(dom.values[d_idx], dom.values.back()); dom.values.pop_back();"
SwapPop(values, d_idx) ==
    SubSeq([values EXCEPT ![d_idx + 1] = values[Len(values)]], 1, Len(values) - 1)

\* The filtering loop of Assignment::AplyArcConsistency from d_idx on: the
\* values of the set keep stay, the others are swapped out.
RECURSIVE SwapRemove(_, _, _)
SwapRemove(values, d_idx, keep) ==
    IF d_idx >= Len(values) THEN values
    ELSE IF values[d_idx + 1] \in keep THEN SwapRemove(values, d_idx + 1, keep)
    ELSE SwapRemove(SwapPop(values, d_idx), d_idx, keep)

\* The block shared by the three filtering branches: snapshot, filter, test
\* for a wipe-out.
FilterDomain(cd, sd, vid, keep) ==
    LET dom == cd[vid]
        sd2 == FindOrAddSavedDomain(sd, vid, dom)
        left == SwapRemove(dom.values, 0, keep)
    IN  Arc(left # << >>, [cd EXCEPT ![vid] = Domain(dom.type, left)], sd2)

AplyArcConsistency(con, iv, cd, sd) ==
    LET vid1_val == iv[con.vid1]
        vid2_val == iv[con.vid2]
    IN  IF IsEnforceIf(con)
        THEN IF /\ iv[con.vid_if] = UNASSIGNED
                /\ vid1_val # UNASSIGNED /\ vid2_val # UNASSIGNED
                /\ ~ConstraintEvaluate(con, vid1_val, vid2_val)
             THEN FilterDomain(cd, sd, con.vid_if,
                      { val \in SeqSet(cd[con.vid_if].values) :
                          (con.ifnot # 0) = (val # 0) })
             ELSE Arc(TRUE, cd, sd)
        ELSE IF vid1_val = UNASSIGNED
             THEN FilterDomain(cd, sd, con.vid1,
                      { val \in SeqSet(cd[con.vid1].values) :
                          ConstraintEvaluate(con, val, vid2_val) })
             ELSE IF vid2_val = UNASSIGNED
             THEN FilterDomain(cd, sd, con.vid2,
                      { val \in SeqSet(cd[con.vid2].values) :
                          ConstraintEvaluate(con, vid1_val, val) })
             ELSE Arc(TRUE, cd, sd)

(***************************************************************************)
(* ForwardCheckingStep2.                                                   *)
(***************************************************************************)
Frozen == UNCHANGED << engine, domains2, constraints2, vars2 >>

\* Lines 771-779: the test for completion, the new frame, the variable.
Call2 ==
    /\ engine = 2 /\ pc = "call"
    /\ IF IsComplete
       THEN /\ pc' = "return" /\ retval' = TRUE
            /\ UNCHANGED << saved_domains, stack >>
       ELSE /\ saved_domains' = Append(saved_domains, << >>)
            /\ stack' = Append(stack,
                   NewFrame(NextUnassignedVar(inst_vars),
                            current_domains[NextUnassignedVar(inst_vars)]))
            /\ pc' = "loop" /\ UNCHANGED retval
    /\ UNCHANGED << inst_vars, assigned_var_count, current_domains >>
    /\ Frozen

\* Lines 817-820 / 825-831 and 783: the loop fetches val, LambdaStep assigns it.
Assign2 ==
    /\ engine = 2 /\ pc = "loop"
    /\ HasCandidate(Top, current_domains[Top.vid])
    /\ LET f == AtCandidate(Top, current_domains[Top.vid])
       IN  /\ AssignVar(f.vid, f.val)
           /\ stack' = SetTop(f)
    /\ pc' = "validate"
    /\ UNCHANGED << current_domains, saved_domains, retval >>
    /\ Frozen

\* Lines 784 and 806-811: validation, and the rejection of the value.
Validate2 ==
    /\ engine = 2 /\ pc = "validate"
    /\ IF ValidateConstraints2(constraints2, vars2[Top.vid], inst_vars)
       THEN /\ stack' = SetTop([Top EXCEPT !.c_idx = 0, !.success = TRUE])
            /\ pc' = "propagate"
            /\ UNCHANGED << inst_vars, assigned_var_count >>
       ELSE /\ UnAssignVar(Top.vid)
            /\ stack' = SetTop(NextCandidate(Top))
            /\ pc' = "loop"
    /\ UNCHANGED << current_domains, saved_domains, retval >>
    /\ Frozen

\* Lines 787-790: one iteration of the propagation loop.
Propagate2 ==
    /\ engine = 2 /\ pc = "propagate"
    /\ Top.success /\ Top.c_idx < Len(vars2[Top.vid])
    /\ LET c == constraints2[vars2[Top.vid][Top.c_idx + 1]]
           r == AplyArcConsistency2(c, inst_vars, current_domains, saved_domains)
       IN  /\ current_domains' = r.cd
           /\ saved_domains' = r.sd
           /\ stack' = SetTop([Top EXCEPT !.c_idx = @ + 1, !.success = r.ok])
    /\ UNCHANGED << inst_vars, assigned_var_count, pc, retval >>
    /\ Frozen

\* PropagateDone2 with the recursive call made whatever success holds.
PropagateDone2_AlwaysRecurse ==
    /\ engine = 2 /\ pc = "propagate"
    /\ ~(Top.success /\ Top.c_idx < Len(vars2[Top.vid]))
    /\ pc' = "call"
    /\ UNCHANGED << inst_vars, assigned_var_count, current_domains, stack,
                    saved_domains, retval >>
    /\ Frozen

\* Lines 791-804 with the propagation loop ended: recurse, or undo.
PropagateDone2 ==
    /\ engine = 2 /\ pc = "propagate"
    /\ ~(Top.success /\ Top.c_idx < Len(vars2[Top.vid]))
    /\ IF Top.success
       THEN /\ pc' = "call"
            /\ UNCHANGED << inst_vars, assigned_var_count, current_domains, stack >>
       ELSE /\ UnAssignVar(Top.vid)
            /\ current_domains' = RestoreSavedDomainStep(current_domains, saved_domains)
            /\ stack' = SetTop(NextCandidate(Top))
            /\ pc' = "loop"
    /\ UNCHANGED << saved_domains, retval >>
    /\ Frozen

\* Exhausted2 without "a.saved_domains.pop_back()".
Exhausted2_NoPop ==
    /\ engine = 2 /\ pc = "loop"
    /\ ~HasCandidate(Top, current_domains[Top.vid])
    /\ stack' = Pop(stack)
    /\ retval' = FALSE
    /\ pc' = "return"
    /\ UNCHANGED << inst_vars, assigned_var_count, current_domains, saved_domains >>
    /\ Frozen

\* Lines 835-841 with no candidate left: the frame is popped, false returned.
Exhausted2 ==
    /\ engine = 2 /\ pc = "loop"
    /\ ~HasCandidate(Top, current_domains[Top.vid])
    /\ saved_domains' = Pop(saved_domains)
    /\ stack' = Pop(stack)
    /\ retval' = FALSE
    /\ pc' = "return"
    /\ UNCHANGED << inst_vars, assigned_var_count, current_domains >>
    /\ Frozen

\* Lines 793-797 and 835-838: the recursive call returned true.
ReturnTrue2 ==
    /\ engine = 2 /\ pc = "return" /\ stack # << >> /\ retval
    /\ stack' = Pop(stack)
    /\ UNCHANGED << inst_vars, assigned_var_count, current_domains, saved_domains,
                    pc, retval >>
    /\ Frozen

\* Lines 793 and 799-804: the recursive call returned false.
ReturnFalse2 ==
    /\ engine = 2 /\ pc = "return" /\ stack # << >> /\ ~retval
    /\ UnAssignVar(Top.vid)
    /\ current_domains' = RestoreSavedDomainStep(current_domains, saved_domains)
    /\ stack' = SetTop(NextCandidate(Top))
    /\ pc' = "loop"
    /\ UNCHANGED << saved_domains, retval >>
    /\ Frozen

(***************************************************************************)
(* ForwardCheckingStep.                                                    *)
(***************************************************************************)
\* Lines 725-733.
Call1 ==
    /\ engine = 1 /\ pc = "call"
    /\ IF IsComplete
       THEN /\ pc' = "return" /\ retval' = TRUE
            /\ UNCHANGED << saved_domains, stack >>
       ELSE /\ saved_domains' = Append(saved_domains, << >>)
            /\ stack' = Append(stack,
                   Frame(NextUnassignedVar(inst_vars), Values, 0, 0, 0, 0, TRUE))
            /\ pc' = "loop" /\ UNCHANGED retval
    /\ UNCHANGED << inst_vars, assigned_var_count, current_domains >>
    /\ Frozen

\* Lines 735-742: the loop fetches val; it is validated, then assigned.
Validate1 ==
    /\ engine = 1 /\ pc = "loop"
    /\ Top.d_idx < Len(current_domains[Top.vid].values)
    /\ LET val == current_domains[Top.vid].values[Top.d_idx + 1]
       IN  IF ValidateConstraints(constraints2, vars2[Top.vid],
                                  Top.vid, val, inst_vars)
           THEN /\ AssignVar(Top.vid, val)
                /\ stack' = SetTop([Top EXCEPT !.val = val, !.c_idx = 0,
                                               !.success = TRUE])
                /\ pc' = "propagate"
           ELSE /\ stack' = SetTop([Top EXCEPT !.d_idx = @ + 1])
                /\ UNCHANGED << inst_vars, assigned_var_count, pc >>
    /\ UNCHANGED << current_domains, saved_domains, retval >>
    /\ Frozen

\* Lines 743-747: one iteration of the propagation loop.
Propagate1 ==
    /\ engine = 1 /\ pc = "propagate"
    /\ Top.success /\ Top.c_idx < Len(vars2[Top.vid])
    /\ LET con == constraints2[vars2[Top.vid][Top.c_idx + 1]]
           r == AplyArcConsistency(con, inst_vars, current_domains, saved_domains)
       IN  /\ current_domains' = r.cd
           /\ saved_domains' = r.sd
           /\ stack' = SetTop([Top EXCEPT !.c_idx = @ + 1, !.success = r.ok])
    /\ UNCHANGED << inst_vars, assigned_var_count, pc, retval >>
    /\ Frozen

\* Lines 748-761 with the propagation loop ended: recurse, or undo.
PropagateDone1 ==
    /\ engine = 1 /\ pc = "propagate"
    /\ ~(Top.success /\ Top.c_idx < Len(vars2[Top.vid]))
    /\ IF Top.success
       THEN /\ pc' = "call"
            /\ UNCHANGED << inst_vars, assigned_var_count, current_domains, stack >>
       ELSE /\ UnAssignVar(Top.vid)
            /\ current_domains' = RestoreSavedDomainStep(current_domains, saved_domains)
            /\ stack' = SetTop([Top EXCEPT !.d_idx = @ + 1])
            /\ pc' = "loop"
    /\ UNCHANGED << saved_domains, retval >>
    /\ Frozen

\* Exhausted1 without "a.saved_domains.pop_back()".
Exhausted1_NoPop ==
    /\ engine = 1 /\ pc = "loop"
    /\ ~(Top.d_idx < Len(current_domains[Top.vid].values))
    /\ stack' = Pop(stack)
    /\ retval' = FALSE
    /\ pc' = "return"
    /\ UNCHANGED << inst_vars, assigned_var_count, current_domains, saved_domains >>
    /\ Frozen

\* Lines 765-766.
Exhausted1 ==
    /\ engine = 1 /\ pc = "loop"
    /\ ~(Top.d_idx < Len(current_domains[Top.vid].values))
    /\ saved_domains' = Pop(saved_domains)
    /\ stack' = Pop(stack)
    /\ retval' = FALSE
    /\ pc' = "return"
    /\ UNCHANGED << inst_vars, assigned_var_count, current_domains >>
    /\ Frozen

\* Lines 750-755: the recursive call returned true.
ReturnTrue1 ==
    /\ engine = 1 /\ pc = "return" /\ stack # << >> /\ retval
    /\ stack' = Pop(stack)
    /\ UNCHANGED << inst_vars, assigned_var_count, current_domains, saved_domains,
                    pc, retval >>
    /\ Frozen

\* Lines 750 and 756-761: the recursive call returned false.
ReturnFalse1 ==
    /\ engine = 1 /\ pc = "return" /\ stack # << >> /\ ~retval
    /\ UnAssignVar(Top.vid)
    /\ current_domains' = RestoreSavedDomainStep(current_domains, saved_domains)
    /\ stack' = SetTop([Top EXCEPT !.d_idx = @ + 1])
    /\ pc' = "loop"
    /\ UNCHANGED << saved_domains, retval >>
    /\ Frozen

(***************************************************************************)
(* Construction of the model and of the Assignment.                        *)
(***************************************************************************)
\* domains2 / vars after push_back of one more domain.
PushVar(doms, dom) ==
    [vid \in 0 .. Cardinality(DOMAIN doms) |->
        IF vid \in DOMAIN doms THEN doms[vid] ELSE dom]

\* Assignment::Reset2(domains) / Assignment::Reset(vars).
Reset2(doms) ==
    /\ assigned_var_count = 0
    /\ inst_vars = [vid \in DOMAIN doms |-> UNASSIGNED]
    /\ current_domains = doms
    /\ saved_domains = << >>

\* All sequences over S of length at most n.
SeqsUpTo(S, n) == UNION { [1..m -> S] : m \in 0..n }

Offsets == 0 .. MaxOffset

\* The initial domains the second-generation models are built from.
DomainMenu2 == { AddIntVar2Range(0, MaxVal - 1), AddBoolVar2, FixedVar(MaxVal) }

\* The constraints the second-generation models are built from, over n variables.
ConMenu2(n) ==
    LET V == 0 .. (n - 1)
    IN  { OpConstraint2(e[1], e[2], op, off) :
            e \in { x \in V \X V : x[1] # x[2] },
            op \in { OpEqual, OpNotEqual }, off \in Offsets }
        \cup { EqualityConstraint2(e[1], e[2]) : e \in { x \in V \X V : x[1] # x[2] } }
        \cup { OrEqualityConstraint2(e[1], e[2], e[3]) :
                 e \in { x \in V \X V \X V :
                           x[1] # x[2] /\ x[1] # x[3] /\ x[2] < x[3] } }
        \cup { CombinedEqualityConstraint2(e[1], e[2], e[3], e[4]) :
                 e \in { x \in V \X V \X V \X V :
                           x[2] < x[3] /\ x[3] < x[1] /\ x[4] # x[1] } }
        \cup { OrRangeConstraint2(e[1], e[2], MaxVal, MaxVal + 1) :
                 e \in { x \in V \X V : x[1] < x[2] } }

\* A solve of the second generation: a model, Reset2, ForwardCheckingStep2.
Init2 ==
    /\ engine = 2
    /\ \E n \in 1..MaxVars :
         /\ domains2 \in [0 .. (n - 1) -> DomainMenu2]
         /\ constraints2 \in SeqsUpTo(ConMenu2(n), MaxCons)
    /\ vars2 = [vid \in DOMAIN domains2 |-> Linked2(constraints2, vid)]
    /\ Reset2(domains2)
    /\ stack = << >> /\ pc = "call" /\ retval = FALSE

Next2 ==
    \/ Call2 \/ Assign2 \/ Validate2 \/ Propagate2 \/ PropagateDone2
    \/ Exhausted2 \/ ReturnTrue2 \/ ReturnFalse2

SpecFC2 == Init2 /\ [][Next2]_vars

\* A solve that runs to its end: the thread that called ForwardCheckingStep2
\* is never suspended for ever while it has a step to take.  The models hold
\* at most MaxLiveCons constraints.
InitLive2 ==
    /\ engine = 2
    /\ \E n \in 1..MaxVars :
         /\ domains2 \in [0 .. (n - 1) -> DomainMenu2]
         /\ constraints2 \in SeqsUpTo(ConMenu2(n), MaxLiveCons)
    /\ vars2 = [vid \in DOMAIN domains2 |-> Linked2(constraints2, vid)]
    /\ Reset2(domains2)
    /\ stack = << >> /\ pc = "call" /\ retval = FALSE

LiveFC2 == InitLive2 /\ [][Next2]_vars /\ WF_vars(Next2)

\* The initial domains the first-generation models are built from.
DomainMenu1 == { AddIntVarRange(0, MaxVal), AddIntVarRange(1, 1) }

AllOps == { OpEqual, OpNotEqual, OpSupEqual, OpSup, OpInfEqual, OpInf }

\* The constraints the first-generation models are built from, over n variables.
ConMenu1(n) ==
    LET V == 0 .. (n - 1)
    IN  { AddConstraint(e[1], op, e[2], 1, 0) :
            e \in { x \in V \X V : x[1] # x[2] }, op \in AllOps }
        \cup { AddConstraintIf(e[1], op, e[2], 1, 0, e[3]) :
                 e \in { x \in V \X V \X V :
                           x[1] < x[2] /\ x[3] # x[1] /\ x[3] # x[2] },
                 op \in { OpEqual, OpNotEqual } }
        \cup { AddConstraintIfNot(e[1], op, e[2], 1, 0, e[3]) :
                 e \in { x \in V \X V \X V :
                           x[1] < x[2] /\ x[3] # x[1] /\ x[3] # x[2] },
                 op \in { OpEqual, OpNotEqual } }

\* The model of OpInequalityTest: v0, v1 in 0..9, v2 = 6, v3 = 5,
\* v0 < v2, v0 >= v3, v1 <= v2, v1 > v3.
IneqTestDomains ==
    PushVar(PushVar(PushVar(PushVar(<< >>, AddIntVarRange(0, 9)),
                            AddIntVarRange(0, 9)),
                    AddIntVarRange(6, 6)),
            AddIntVarRange(5, 5))

IneqTestConstraints ==
    << AddConstraint(0, OpInf, 2, 1, 0), AddConstraint(0, OpSupEqual, 3, 1, 0),
       AddConstraint(1, OpInfEqual, 2, 1, 0), AddConstraint(1, OpSup, 3, 1, 0) >>

\* A solve of the first generation: a model, Reset, ForwardCheckingStep.
Init1 ==
    /\ engine = 1
    /\ \/ \E n \in 1..MaxVars :
            /\ domains2 \in [0 .. (n - 1) -> DomainMenu1]
            /\ constraints2 \in SeqsUpTo(ConMenu1(n), MaxCons)
       \/ /\ domains2 = IneqTestDomains
          /\ constraints2 = IneqTestConstraints
    /\ vars2 = [vid \in DOMAIN domains2 |-> Linked2(constraints2, vid)]
    /\ Reset2(domains2)
    /\ stack = << >> /\ pc = "call" /\ retval = FALSE

Next1 ==
    \/ Call1 \/ Validate1 \/ Propagate1 \/ PropagateDone1
    \/ Exhausted1 \/ ReturnTrue1 \/ ReturnFalse1

SpecFC1 == Init1 /\ [][Next1]_vars

\* First-generation models with conditional constraints, multipliers,
\* additive constants and the overloads taking a constant.
DomainMenuCond == { AddIntVarRange(0, MaxVal), AddBoolVar }

ConMenuCond(n) ==
    LET V == 0 .. (n - 1)
        Pairs == { x \in V \X V : x[1] # x[2] }
        Triples == { x \in V \X V \X V : x[1] < x[2] /\ x[3] # x[1] /\ x[3] # x[2] }
    IN  { AddConstraint(e[1], op, e[2], m[1], m[2]) :
            e \in Pairs, op \in { OpEqual, OpNotEqual, OpSup },
            m \in { << 1, 0 >>, << 2, 0 >>, << 1, MaxOffset >> } }
        \cup { AddConstraintIf(e[1], op, e[2], 1, 0, e[3]) :
                 e \in Triples, op \in { OpEqual, OpNotEqual } }
        \cup { AddConstraintIfNot(e[1], op, e[2], 1, 0, e[3]) :
                 e \in Triples, op \in { OpEqual, OpNotEqual } }
        \cup { AddConstraintConst(vid, op, 1) :
                 vid \in V, op \in { OpEqual, OpNotEqual } }
        \cup { AddConstraintIfConst(e[1], OpEqual, 1, e[2]) : e \in Pairs }
        \cup { AddConstraintIfNotConst(e[1], OpEqual, 1, e[2]) : e \in Pairs }

InitCond ==
    /\ engine = 1
    /\ \E n \in 1..MaxVars :
         /\ domains2 \in [0 .. (n - 1) -> DomainMenuCond]
         /\ constraints2 \in SeqsUpTo(ConMenuCond(n), MaxCons)
    /\ vars2 = [vid \in DOMAIN domains2 |-> Linked2(constraints2, vid)]
    /\ Reset2(domains2)
    /\ stack = << >> /\ pc = "call" /\ retval = FALSE

SpecCond == InitCond /\ [][Next1]_vars

\* Either engine.
Init == Init1 \/ Init2

Next == Next1 \/ Next2

Spec == Init /\ [][Next]_vars

(***************************************************************************)
(* Reset of an Assignment between solves: the caller resets the Assignment *)
(* it holds, fresh or left by a solve, and calls the solver again.         *)
(***************************************************************************)
\* Reset2 without "saved_domains.clear()".
Reset2Call_KeepSaved ==
    /\ engine = 2 /\ stack = << >> /\ pc \in { "call", "return" }
    /\ assigned_var_count' = 0
    /\ inst_vars' = [vid \in DOMAIN domains2 |-> UNASSIGNED]
    /\ current_domains' = domains2
    /\ pc' = "call"
    /\ UNCHANGED << saved_domains, stack, retval >>
    /\ Frozen

\* a.Reset2(csp.domains2)
Reset2Call ==
    /\ engine = 2 /\ stack = << >> /\ pc \in { "call", "return" }
    /\ assigned_var_count' = 0
    /\ inst_vars' = [vid \in DOMAIN domains2 |-> UNASSIGNED]
    /\ current_domains' = domains2
    /\ saved_domains' = << >>
    /\ pc' = "call"
    /\ UNCHANGED << stack, retval >>
    /\ Frozen

\* a.Reset(csp.vars)
ResetCall ==
    /\ engine = 1 /\ stack = << >> /\ pc \in { "call", "return" }
    /\ assigned_var_count' = 0
    /\ inst_vars' = [vid \in DOMAIN domains2 |-> UNASSIGNED]
    /\ current_domains' = [vid \in DOMAIN domains2 |-> domains2[vid]]
    /\ saved_domains' = << >>
    /\ pc' = "call"
    /\ UNCHANGED << stack, retval >>
    /\ Frozen

NextReset == Next \/ ResetCall \/ Reset2Call

SpecReset == Init /\ [][NextReset]_vars

(***************************************************************************)
(* N-queens as NQueensTest posts it: N range variables over the rows       *)
(* 0..N-1 and, for every pair i < j, three NotEqual constraints with the   *)
(* offsets 0, j-i and i-j.                                                 *)
(***************************************************************************)
RECURSIVE QueensConstraints(_, _, _)
QueensConstraints(n, i, j) ==
    IF i >= n THEN << >>
    ELSE IF j >= n THEN QueensConstraints(n, i + 1, i + 2)
    ELSE << OpConstraint2(i, j, OpNotEqual, 0),
            OpConstraint2(i, j, OpNotEqual, j - i),
            OpConstraint2(i, j, OpNotEqual, i - j) >>
         \o QueensConstraints(n, i, j + 1)

InitQueens ==
    /\ engine = 2
    /\ \E n \in 1..MaxQueens :
         /\ domains2 = [vid \in 0 .. (n - 1) |-> AddIntVar2Range(0, n - 1)]
         /\ constraints2 = QueensConstraints(n, 0, 1)
    /\ vars2 = [vid \in DOMAIN domains2 |-> Linked2(constraints2, vid)]
    /\ Reset2(domains2)
    /\ stack = << >> /\ pc = "call" /\ retval = FALSE

SpecQueens == InitQueens /\ [][Next2]_vars

(***************************************************************************)
(* Models whose domains are given to AddIntVar2(name, domain) with a       *)
(* Ranges list of two intervals or a Values list that is not ascending.    *)
(***************************************************************************)
DomainMenuOrder ==
    { Domain(Ranges, << 0, 1, MaxVal, MaxVal + 1 >>),
      Domain(Values, << MaxVal - 1, 0 >>),
      AddIntVar2Range(0, MaxVal - 1) }

InitOrder ==
    /\ engine = 2
    /\ \E n \in 1..MaxVars :
         /\ domains2 \in [0 .. (n - 1) -> DomainMenuOrder]
         /\ constraints2 \in SeqsUpTo(ConMenu2(n), MaxCons)
    /\ vars2 = [vid \in DOMAIN domains2 |-> Linked2(constraints2, vid)]
    /\ Reset2(domains2)
    /\ stack = << >> /\ pc = "call" /\ retval = FALSE

SpecOrder == InitOrder /\ [][Next2]_vars

(***************************************************************************)
(* An Assignment driven through its public members, outside a solve: after *)
(* Reset2 the caller pushes one SavedDomainStep (as line 775 does), then   *)
(* assigns variables with AssignVar and calls AplyArcConsistency of the    *)
(* posted constraints in any order.  retval holds what the last call       *)
(* returned.                                                               *)
(***************************************************************************)
\* The constraints of the hand-driven models: the two-variable kinds.
ConMenuArc(n) == { c \in ConMenu2(n) : c.kind \in { "Op", "Equality" } }

InitArc ==
    /\ engine = 2
    /\ \E n \in 2..MaxVars :
         /\ domains2 \in [0 .. (n - 1) -> DomainMenu2]
         /\ constraints2 \in SeqsUpTo(ConMenuArc(n), 1)
    /\ vars2 = [vid \in DOMAIN domains2 |-> Linked2(constraints2, vid)]
    /\ assigned_var_count = 0
    /\ inst_vars = [vid \in DOMAIN domains2 |-> UNASSIGNED]
    /\ current_domains = domains2
    /\ saved_domains = << << >> >>
    /\ stack = << >> /\ pc = "arc" /\ retval = TRUE

\* a.AssignVar(vid, val) with a value of the variable's initial domain.
AssignVarCall(vid, val) ==
    /\ pc = "arc" /\ inst_vars[vid] = UNASSIGNED
    /\ AssignVar(vid, val)
    /\ UNCHANGED << current_domains, saved_domains, stack, pc, retval >>
    /\ Frozen

\* constraints2[k]->AplyArcConsistency(a)
ArcCall(k) ==
    /\ pc = "arc"
    /\ LET r == AplyArcConsistency2(constraints2[k], inst_vars,
                                    current_domains, saved_domains)
       IN  /\ current_domains' = r.cd
           /\ saved_domains' = r.sd
           /\ retval' = r.ok
    /\ UNCHANGED << inst_vars, assigned_var_count, stack, pc >>
    /\ Frozen

NextArc ==
    \/ \E vid \in DOMAIN inst_vars :
         \E val \in DomainSet(domains2[vid]) : AssignVarCall(vid, val)
    \/ \E k \in 1..Len(constraints2) : ArcCall(k)

SpecArc == InitArc /\ [][NextArc]_vars

(***************************************************************************)
(* Construction of a model, one call of the CSP interface per step.        *)
(***************************************************************************)
BuildVals == 0 .. MaxVal

NumBuilt == Cardinality(DOMAIN domains2)

\* What the Add... functions share: push_back of the Var / Var2 and of the domain.
PushBackVar(dom) ==
    /\ pc = "build" /\ NumBuilt < MaxVars
    /\ domains2' = PushVar(domains2, dom)
    /\ vars2' = PushVar(vars2, << >>)
    /\ UNCHANGED << engine, constraints2, inst_vars, assigned_var_count,
                    current_domains, saved_domains, stack, pc, retval >>

\* CSP::AddIntVar2(name, min_val, max_val)
AddIntVar2(min_val, max_val) ==
    engine = 2 /\ PushBackVar(AddIntVar2Range(min_val, max_val))

\* CSP::AddIntVar2(name, domain)
AddIntVar2Domain(domain) == engine = 2 /\ PushBackVar(domain)

\* CSP::AddIntVar(name, min_val, max_val)
AddIntVar(min_val, max_val) ==
    engine = 1 /\ PushBackVar(AddIntVarRange(min_val, max_val))

InitBuild ==
    /\ engine \in { 1, 2 }
    /\ domains2 = << >> /\ constraints2 = << >> /\ vars2 = << >>
    /\ Reset2(<< >>)
    /\ stack = << >> /\ pc = "build" /\ retval = FALSE

NextBuild ==
    \/ \E min_val \in BuildVals, max_val \in BuildVals :
         min_val <= max_val /\ AddIntVar2(min_val, max_val)
    \/ \E v \in BuildVals : AddIntVar2Domain(FixedVar(v))
    \/ AddIntVar2Domain(AddBoolVar2)
    \/ \E min_val \in BuildVals, max_val \in BuildVals :
         min_val <= max_val /\ AddIntVar(min_val, max_val)

SpecBuild == InitBuild /\ [][NextBuild]_vars

(***************************************************************************)
(* Vocabulary of the properties.                                           *)
(***************************************************************************)
\* The outermost call of ForwardCheckingStep(2) has returned.
Done == pc = "return" /\ stack = << >>

ReturnedTrue == Done /\ retval

ReturnedFalse == Done /\ ~retval

AssignedVars == { vid \in DOMAIN inst_vars : inst_vars[vid] # UNASSIGNED }

\* The assignments of one value of its initial domain to every variable.
InitialAssignments ==
    { f \in [DOMAIN domains2 ->
               UNION { DomainSet(domains2[vid]) : vid \in DOMAIN domains2 }] :
        \A vid \in DOMAIN domains2 : f[vid] \in DomainSet(domains2[vid]) }

\* The relation a second-generation constraint stands for.
Holds2(c, f) ==
    CASE c.kind = "Op" /\ c.op = OpEqual -> f[c.v0] = f[c.v1] + c.offset
      [] c.kind = "Op" /\ c.op = OpNotEqual -> f[c.v0] # f[c.v1] + c.offset
      [] c.kind = "Equality" -> f[c.v0] = f[c.v1]
      [] c.kind = "OrEquality" -> f[c.v0] \in { f[c.v1], f[c.v2] }
      [] c.kind = "CombinedEquality" -> f[c.v0] + f[c.v3] = f[c.v1] + f[c.v2]
      [] c.kind = "OrRange" -> \E v \in { f[c.v0], f[c.v1] } : c.min <= v /\ v < c.max

Satisfiable2 ==
    \E f \in InitialAssignments :
       \A k \in 1..Len(constraints2) : Holds2(constraints2[k], f)

(***************************************************************************)
(* C1.  Soundness of ForwardCheckingStep2: when the solve returns true,    *)
(* every variable is assigned (IsComplete) and Evaluate of every posted    *)
(* constraint over inst_vars is true.                                      *)
(***************************************************************************)
C1_Soundness ==
    (engine = 2 /\ ReturnedTrue) =>
        /\ IsComplete
        /\ AssignedVars = DOMAIN inst_vars
        /\ \A k \in 1..Len(constraints2) : Evaluate2(constraints2[k], inst_vars)

\* A solve of a three-variable model with two constraints, one of them
\* without propagation, has returned true.
C1_Witness ==
    /\ engine = 2 /\ ReturnedTrue
    /\ NumVars = 3 /\ Len(constraints2) = 2
    /\ \E k \in 1..2 : constraints2[k].kind = "OrRange"

(***************************************************************************)
(* C2.  Completeness of ForwardCheckingStep2: the solve returns false only *)
(* if no assignment of initial-domain values satisfies every constraint.   *)
(***************************************************************************)
C2_Completeness == (engine = 2 /\ ReturnedFalse) => ~Satisfiable2

(***************************************************************************)
(* C3.  N-queens: the solve returns true for N = 1 and 4 <= N <= 8, and    *)
(* the returned rows are pairwise distinct and share no diagonal.          *)
(***************************************************************************)
C3_Queens ==
    (Done /\ (NumVars = 1 \/ (4 <= NumVars /\ NumVars <= 8))) =>
        /\ retval
        /\ \A i \in DOMAIN inst_vars, j \in DOMAIN inst_vars :
             i < j => /\ inst_vars[i] # inst_vars[j]
                      /\ inst_vars[i] - inst_vars[j] # j - i
                      /\ inst_vars[j] - inst_vars[i] # j - i

(***************************************************************************)
(* C4.  Inequality operators (first generation): for a model whose         *)
(* constraints are unconditional <, <=, >, >= constraints with offset 0,   *)
(* the solve returns true exactly when a satisfying assignment exists, the *)
(* returned values satisfy every inequality, and the model of              *)
(* OpInequalityTest is solved with v0 = 5 and v1 = 6.                      *)
(***************************************************************************)
Inequalities == { OpSupEqual, OpSup, OpInfEqual, OpInf }

IneqModel ==
    \A k \in 1..Len(constraints2) :
       /\ constraints2[k].op \in Inequalities
       /\ constraints2[k].vid_if = INVALID
       /\ constraints2[k].const_mul2 = 1 /\ constraints2[k].const_add2 = 0

\* The inequality "vid1 op vid2" on the values f.
HoldsIneq(con, f) ==
    CASE con.op = OpSupEqual -> f[con.vid1] >= f[con.vid2]
      [] con.op = OpSup -> f[con.vid1] > f[con.vid2]
      [] con.op = OpInfEqual -> f[con.vid1] <= f[con.vid2]
      [] con.op = OpInf -> f[con.vid1] < f[con.vid2]

SatisfiableIneq ==
    \E f \in InitialAssignments :
       \A k \in 1..Len(constraints2) : HoldsIneq(constraints2[k], f)

IsIneqTest == domains2 = IneqTestDomains /\ constraints2 = IneqTestConstraints

C4_Inequality ==
    (engine = 1 /\ Done /\ IneqModel) =>
        /\ retval <=> SatisfiableIneq
        /\ retval => \A k \in 1..Len(constraints2) : HoldsIneq(constraints2[k], inst_vars)
        /\ IsIneqTest => (retval /\ inst_vars[0] = 5 /\ inst_vars[1] = 6)

\* The solve of the model of OpInequalityTest has returned true.
C4_Witness == engine = 1 /\ Done /\ IsIneqTest /\ retval /\ IsComplete

(***************************************************************************)
(* C5.  In every state of a search started from Reset2, the values encoded *)
(* by current_domains[vid] are values of the initial domain domains2[vid]. *)
(***************************************************************************)
C5_DomainSubset ==
    engine = 2 =>
        \A vid \in DOMAIN current_domains :
           DomainSet(current_domains[vid]) \subseteq DomainSet(domains2[vid])

(***************************************************************************)
(* C6.  When a solve returns true, GetInstVarValue(vid) is a member of the *)
(* initial domain of vid, for every variable vid.                          *)
(***************************************************************************)
C6_ValueInDomain ==
    (engine = 2 /\ ReturnedTrue) =>
        \A vid \in DOMAIN inst_vars : GetInstVarValue(vid) \in DomainSet(domains2[vid])

(***************************************************************************)
(* C7.  When ForwardCheckingStep2, called on a freshly Reset2 assignment,  *)
(* returns false, every inst_vars entry is UNASSIGNED, assigned_var_count  *)
(* is 0 and saved_domains is empty.                                        *)
(***************************************************************************)
C7_FailureState ==
    (engine = 2 /\ ReturnedFalse) =>
        /\ \A vid \in DOMAIN inst_vars : inst_vars[vid] = UNASSIGNED
        /\ assigned_var_count = 0
        /\ saved_domains = << >>

\* A solve of a model of three variables and two constraints has returned false.
C7_Witness ==
    engine = 2 /\ ReturnedFalse /\ NumVars = 3 /\ Len(constraints2) = 2

(***************************************************************************)
(* C8.  In every state of a solve, of ForwardCheckingStep and of           *)
(* ForwardCheckingStep2, assigned_var_count is the number of variables     *)
(* whose inst_vars value differs from UNASSIGNED.                          *)
(***************************************************************************)
C8_Count == assigned_var_count = Cardinality(AssignedVars)

\* Two variables are assigned and a third is being tried, after a backtrack.
C8_Witness ==
    /\ pc = "propagate" /\ assigned_var_count = 3
    /\ \E k \in 1..Len(stack) : stack[k].d_idx > 0

(***************************************************************************)
(* C9.  Adding an integer variable with the bounds (lo, hi) creates a      *)
(* variable whose initial domain is the half-open range [lo, hi): it       *)
(* contains lo and hi - 1 and does not contain hi.                         *)
(***************************************************************************)
C9_HalfOpen ==
    [][\A lo \in BuildVals, hi \in BuildVals :
          (lo < hi /\ (AddIntVar2(lo, hi) \/ AddIntVar(lo, hi))) =>
              /\ lo \in DomainSet(domains2'[NumBuilt])
              /\ (hi - 1) \in DomainSet(domains2'[NumBuilt])
              /\ hi \notin DomainSet(domains2'[NumBuilt])]_vars

(***************************************************************************)
(* C10.  Variable selection order.                                         *)
(***************************************************************************)
DomainSize(dom) == Cardinality(DomainSet(dom))

\* The position (from 1) of vid among the VarIds sorted by ascending initial
\* domain size, VarId breaking ties.
FirstFailRank(vid) ==
    1 + Cardinality({ w \in DOMAIN domains2 :
                        \/ DomainSize(domains2[w]) < DomainSize(domains2[vid])
                        \/ /\ DomainSize(domains2[w]) = DomainSize(domains2[vid])
                           /\ w < vid })

RECURSIVE RangesSeq(_, _)
RangesSeq(values, k) ==
    IF k > Len(values) \div 2 THEN << >>
    ELSE RangeSeq(values[2 * k - 1], values[2 * k]) \o RangesSeq(values, k + 1)

\* The values a domain stores, in its stored order.
DomainSeq(dom) ==
    IF dom.type = Values THEN dom.values ELSE RangesSeq(dom.values, 1)

\* The values the activation f has tried so far, as its loop counters tell.
Tried(f, dom) ==
    IF f.type = Values THEN SubSeq(dom.values, 1, f.d_idx)
    ELSE IF f.r_idx >= Len(dom.values) THEN DomainSeq(dom)
    ELSE RangesSeq(SubSeq(dom.values, 1, f.r_idx), 1)
         \o RangeSeq(dom.values[f.r_idx + 1], f.val)

\* The running activation gives up its candidate and goes back to its loop.
Rejected2 ==
    engine = 2 /\ pc # "loop" /\ pc' = "loop" /\ Len(stack') = Len(stack)

C11_ValueOrder ==
    [][/\ Call2 /\ pc' = "loop" =>
            Tried(Top', current_domains'[Top'.vid]) = << >>
       /\ Assign2 =>
            LET dom == current_domains[Top.vid]
                n == Len(Tried(Top, dom))
            IN  /\ n < Len(DomainSeq(dom))
                /\ inst_vars'[Top.vid] = DomainSeq(dom)[n + 1]
       /\ Rejected2 =>
            Tried(Top', current_domains'[Top.vid]) =
                Append(Tried(Top, current_domains[Top.vid]), inst_vars[Top.vid])
       /\ (pc = "return" /\ retval) => inst_vars' = inst_vars]_vars

\* One activation is in the second interval of a two-interval Ranges domain
\* and another has gone past the first entry of a Values list.
C11_Witness ==
    /\ engine = 2 /\ pc = "validate"
    /\ \E k \in 1..Len(stack) :
         /\ stack[k].type = Ranges /\ stack[k].r_idx = 2
         /\ Len(domains2[stack[k].vid].values) = 4
    /\ \E k \in 1..Len(stack) : stack[k].type = Values /\ stack[k].d_idx >= 1

(***************************************************************************)
(* C12.  Reset2 (and Reset) applied to an Assignment in any state - fresh, *)
(* after a successful solve, after a failed solve - yields the same state: *)
(* one UNASSIGNED entry of inst_vars per variable, assigned_var_count 0,   *)
(* current_domains equal to the initial domains, saved_domains empty; the  *)
(* solve that follows starts from the state a fresh Assignment starts      *)
(* from, so it returns the same result and values.                         *)
(***************************************************************************)
\* The state of an Assignment on which a solve of the model is started.
FreshAssignment ==
    /\ DOMAIN inst_vars = DOMAIN domains2
    /\ \A vid \in DOMAIN inst_vars : inst_vars[vid] = UNASSIGNED
    /\ assigned_var_count = 0
    /\ current_domains = domains2
    /\ saved_domains = << >>

C12_ResetState ==
    [][(ResetCall \/ Reset2Call) =>
          /\ FreshAssignment'
          /\ stack' = << >> /\ pc' = "call"
          /\ << engine, domains2, constraints2, vars2 >>' =
                << engine, domains2, constraints2, vars2 >>]_vars

\* An Assignment left by a successful solve of three variables, with its
\* frames still on saved_domains, has been reset.
C12_Witness ==
    /\ pc = "call" /\ stack = << >> /\ retval
    /\ NumVars = 3 /\ FreshAssignment

(***************************************************************************)
(* C13.  For every constraint kind, TryEvaluate returns NA exactly when at *)
(* least one participating variable is UNASSIGNED; when all participants   *)
(* are assigned it returns Passed if the relation of the constraint holds  *)
(* on their values and Failed otherwise.                                   *)
(***************************************************************************)
\* The variables a constraint is about.
Participants(c) ==
    CASE c.kind = "OrEquality" -> { c.v0, c.v1, c.v2 }
      [] c.kind = "CombinedEquality" -> { c.v0, c.v1, c.v2, c.v3 }
      [] OTHER -> { c.v0, c.v1 }

Restoring == pc \in { "propagate", "return" } /\ pc' = "loop"

C14_RestoreIdempotent ==
    [][/\ saved_domains # << >> =>
            LET once == RestoreSavedDomainStep(current_domains, saved_domains)
            IN  RestoreSavedDomainStep(once, saved_domains) = once
       /\ Restoring =>
            /\ saved_domains' = saved_domains
            /\ current_domains' =
                   RestoreSavedDomainStep(current_domains, saved_domains)
            /\ RestoreSavedDomainStep(current_domains', saved_domains') =
                   current_domains']_vars

\* A candidate has been given up and the domains restored from a frame that
\* holds the snapshots of two variables.
C14_Witness ==
    /\ pc = "loop" /\ stack # << >>
    /\ Len(saved_domains[Len(saved_domains)]) >= 2
    /\ current_domains = RestoreSavedDomainStep(current_domains, saved_domains)

(***************************************************************************)
(* C15.  Backtrack restores domains: whenever a call of                    *)
(* ForwardCheckingStep2 at any depth returns false, current_domains (type  *)
(* and values of every variable) is what it was when that call was         *)
(* entered, and after a candidate was rejected by propagation or by a      *)
(* failed recursion the domains are again those at level entry before the  *)
(* next candidate is tried.                                                *)
(***************************************************************************)
\* The propagation loop of LambdaStep from c_idx on, on a frame of its own.
RECURSIVE PropagateAll(_, _, _, _, _)
PropagateAll(linked, c_idx, iv, cd, sd) ==
    IF c_idx >= Len(linked) THEN Arc(TRUE, cd, sd)
    ELSE LET r == AplyArcConsistency2(constraints2[linked[c_idx + 1]], iv, cd, sd)
         IN  IF r.ok THEN PropagateAll(linked, c_idx + 1, iv, r.cd, r.sd) ELSE r

\* inst_vars as it was when the activation at depth k (from 1) was entered:
\* the variables of the activations below it hold their present values.
EntryInstVars(k) ==
    [vid \in DOMAIN inst_vars |->
        IF \E j \in 1..(k - 1) : stack[j].vid = vid
        THEN inst_vars[vid] ELSE UNASSIGNED]

\* current_domains as it was when the activation at depth k was entered: the
\* initial domains at depth 1, and at depth k + 1 what the propagation of
\* the present value of depth k made of the domains depth k was entered with.
RECURSIVE EntryDomains(_)
EntryDomains(k) ==
    IF k <= 1 THEN domains2
    ELSE PropagateAll(vars2[stack[k - 1].vid], 0, EntryInstVars(k),
                      EntryDomains(k - 1), << << >> >>).cd

C15_BacktrackRestores ==
    engine = 2 =>
        /\ (pc = "return" /\ ~retval) =>
               current_domains = EntryDomains(Len(stack) + 1)
        /\ (pc = "loop") => current_domains = EntryDomains(Len(stack))

\* A call at depth 2 or more, entered with domains that propagation had
\* narrowed, has returned false.
C15_Witness ==
    /\ engine = 2 /\ pc = "return" /\ ~retval /\ Len(stack) >= 1
    /\ current_domains # domains2
    /\ saved_domains[Len(saved_domains)] # << >>

(***************************************************************************)
(* Vocabulary of the propagation properties.                               *)
(***************************************************************************)
\* The constraint the next iteration of the propagation loop applies.
PropagatedCon == constraints2[vars2[Top.vid][Top.c_idx + 1]]

\* Propagate2 applies a constraint of the given kind.
Propagates(kind) == Propagate2 /\ PropagatedCon.kind = kind

\* The call narrows the domain of vid to the set keep of values and returns
\* false exactly when no value is left.
NarrowsTo(vid, keep) ==
    /\ DomainSet(current_domains'[vid]) = keep
    /\ Top'.success = (keep # {})

(***************************************************************************)
(* C16.  Op propagation: when exactly one of v0, v1 is unassigned, after   *)
(* OpConstraint2::AplyArcConsistency the domain of the unassigned side     *)
(* holds exactly the values of its domain before the call that satisfy     *)
(* "v0 op v1 + offset" with the value of the assigned side, in Values and  *)
(* in Ranges form.                                                         *)
(***************************************************************************)
OpRelation(c, x0, x1) ==
    IF c.op = OpEqual THEN x0 = x1 + c.offset ELSE x0 # x1 + c.offset

C16_OpPropagation ==
    [][Propagates("Op") =>
          LET c == PropagatedCon
          IN  /\ (inst_vars[c.v0] = UNASSIGNED /\ inst_vars[c.v1] # UNASSIGNED) =>
                    DomainSet(current_domains'[c.v0]) =
                        { x \in DomainSet(current_domains[c.v0]) :
                            OpRelation(c, x, inst_vars[c.v1]) }
              /\ (inst_vars[c.v1] = UNASSIGNED /\ inst_vars[c.v0] # UNASSIGNED) =>
                    DomainSet(current_domains'[c.v1]) =
                        { x \in DomainSet(current_domains[c.v1]) :
                            OpRelation(c, inst_vars[c.v0], x) }]_vars

(***************************************************************************)
(* C17.  Equality propagation: when exactly one side of Equality(v0, v1)   *)
(* is assigned, with value x, the domain of the other side becomes its     *)
(* domain before the call intersected with {x} (the call returns false     *)
(* when that is empty), for either side, also when the domain was narrowed *)
(* earlier at the same search level.                                       *)
(***************************************************************************)
C17_EqualityPropagation ==
    [][Propagates("Equality") =>
          LET c == PropagatedCon
          IN  /\ (inst_vars[c.v0] = UNASSIGNED /\ inst_vars[c.v1] # UNASSIGNED) =>
                    NarrowsTo(c.v0, DomainSet(current_domains[c.v0])
                                      \cap { inst_vars[c.v1] })
              /\ (inst_vars[c.v1] = UNASSIGNED /\ inst_vars[c.v0] # UNASSIGNED) =>
                    NarrowsTo(c.v1, DomainSet(current_domains[c.v1])
                                      \cap { inst_vars[c.v0] })]_vars

(***************************************************************************)
(* C18.  CombinedEquality propagation: the domain of v0 is narrowed only   *)
(* when v1, v2 and v3 are all assigned and v0 is not, and then it becomes  *)
(* its previous domain intersected with {v1 + v2 - v3}; in every other     *)
(* assignment pattern no domain is changed.                                *)
(***************************************************************************)
C18_CombinedPropagation ==
    [][Propagates("CombinedEquality") =>
          LET c == PropagatedCon
          IN  IF /\ inst_vars[c.v0] = UNASSIGNED /\ inst_vars[c.v1] # UNASSIGNED
                 /\ inst_vars[c.v2] # UNASSIGNED /\ inst_vars[c.v3] # UNASSIGNED
              THEN NarrowsTo(c.v0,
                       DomainSet(current_domains[c.v0])
                         \cap { inst_vars[c.v1] + inst_vars[c.v2] - inst_vars[c.v3] })
              ELSE current_domains' = current_domains]_vars

(***************************************************************************)
(* C19.  OrEquality propagation: the domain of v0 is narrowed only when v1 *)
(* and v2 are both assigned and v0 is not, and then it becomes its         *)
(* previous domain restricted to the values equal to the value of v1 or of *)
(* v2; in every other assignment pattern no domain is changed.             *)
(***************************************************************************)
C19_OrEqualityPropagation ==
    [][Propagates("OrEquality") =>
          LET c == PropagatedCon
          IN  IF /\ inst_vars[c.v0] = UNASSIGNED /\ inst_vars[c.v1] # UNASSIGNED
                 /\ inst_vars[c.v2] # UNASSIGNED
              THEN NarrowsTo(c.v0,
                       DomainSet(current_domains[c.v0])
                         \cap { inst_vars[c.v1], inst_vars[c.v2] })
              ELSE current_domains' = current_domains]_vars

(***************************************************************************)
(* C20.  OrRange propagation is a no-op: the call returns true and leaves  *)
(* current_domains, saved_domains and inst_vars exactly as they were,      *)
(* whatever the assignment pattern and the bounds of the constraint.       *)
(***************************************************************************)
C20_OrRangeNoOp ==
    [][Propagates("OrRange") =>
          /\ Top'.success
          /\ current_domains' = current_domains
          /\ saved_domains' = saved_domains
          /\ inst_vars' = inst_vars
          /\ assigned_var_count' = assigned_var_count]_vars

\* An OrRange constraint has just been propagated with one of its variables
\* unassigned and the other assigned a value outside [min, max), the case in
\* which a narrowing propagation would have restricted the unassigned side.
C20_Witness ==
    /\ engine = 2 /\ pc = "propagate" /\ Top.c_idx >= 1 /\ Top.success
    /\ LET c == constraints2[vars2[Top.vid][Top.c_idx]]
       IN  /\ c.kind = "OrRange"
           /\ \E e \in { << c.v0, c.v1 >>, << c.v1, c.v0 >> } :
                 /\ inst_vars[e[1]] = UNASSIGNED
                 /\ inst_vars[e[2]] # UNASSIGNED
                 /\ (inst_vars[e[2]] < c.min \/ inst_vars[e[2]] >= c.max)
                 /\ DomainSet(current_domains[e[1]]) # {}

(***************************************************************************)
(* C21.  Op propagation with both v0 and v1 unassigned is a no-op: the     *)
(* call returns true and changes no current domain and no saved-domain     *)
(* frame.                                                                  *)
(***************************************************************************)
C21_OpBothUnassigned ==
    [][\A k \in 1..Len(constraints2) :
          (/\ ArcCall(k)
           /\ constraints2[k].kind = "Op"
           /\ inst_vars[constraints2[k].v0] = UNASSIGNED
           /\ inst_vars[constraints2[k].v1] = UNASSIGNED)
          => /\ retval'
             /\ current_domains' = current_domains
             /\ saved_domains' = saved_domains]_vars

(***************************************************************************)
(* C22.  Narrowing then excluding: when, within one search level, an       *)
(* Equality or Op '=' propagation has narrowed the domain of a variable to *)
(* a value v and an Op '!=' propagation then excludes the same v from it,  *)
(* the domain is left empty and the second propagation returns false.      *)
(***************************************************************************)
\* The variable of a two-variable constraint other than the just-assigned one.
OtherSide(c) == IF c.v0 = Top.vid THEN c.v1 ELSE c.v0

\* The value an Equality or Op propagation from Top.vid compares the domain
\* of the other side with.
NarrowValue(c) ==
    IF c.kind = "Equality" THEN inst_vars[Top.vid]
    ELSE IF c.v0 = Top.vid THEN inst_vars[Top.vid] - c.offset
    ELSE inst_vars[Top.vid] + c.offset

\* An earlier iteration of the running propagation loop narrowed the domain
\* of vid to the value v.
NarrowedTo(vid, v) ==
    \E j \in 1..Top.c_idx :
       LET c == constraints2[vars2[Top.vid][j]]
       IN  /\ c.kind = "Equality" \/ (c.kind = "Op" /\ c.op = OpEqual)
           /\ c.v0 # c.v1 /\ OtherSide(c) = vid /\ NarrowValue(c) = v

C22_NarrowThenExclude ==
    [][(Propagates("Op") /\ PropagatedCon.op = OpNotEqual) =>
          LET c == PropagatedCon
              vid == OtherSide(c)
              v == NarrowValue(c)
          IN  (/\ c.v0 # c.v1 /\ inst_vars[vid] = UNASSIGNED
               /\ NarrowedTo(vid, v))
              => /\ DomainSet(current_domains'[vid]) = {}
                 /\ ~Top'.success]_vars

(***************************************************************************)
(* C23.  Values-form domains hold pairwise distinct integers: in every     *)
(* reachable state of a solve whose initial Values lists have no repeated  *)
(* value, no current domain in Values form holds a value twice.            *)
(***************************************************************************)
Distinct(values) == Cardinality(SeqSet(values)) = Len(values)

C23_DistinctValues ==
    (/\ engine = 2
     /\ \A vid \in DOMAIN domains2 :
           domains2[vid].type = Values => Distinct(domains2[vid].values))
    => \A vid \in DOMAIN current_domains :
          current_domains[vid].type = Values
              => Distinct(current_domains[vid].values)

(***************************************************************************)
(* C24.  Snapshots: in every reachable state each frame of saved_domains   *)
(* holds at most one SavedDomain per variable, and that snapshot is the    *)
(* variable's current domain (type and values) as it was when the search   *)
(* level of the frame was entered.                                         *)
(***************************************************************************)
\* current_domains as it was when search level k (from 1) was entered.  The
\* variable of level j is j - 1, NextUnassignedVar being the first unassigned
\* index; the levels below k hold their present values.
RECURSIVE LevelEntryDomains(_)
LevelEntryDomains(k) ==
    IF k <= 1 THEN domains2
    ELSE PropagateAll(vars2[k - 2], 0,
                      [vid \in DOMAIN inst_vars |->
                          IF vid < k - 1 THEN inst_vars[vid] ELSE UNASSIGNED],
                      LevelEntryDomains(k - 1), << << >> >>).cd

C24_Snapshots ==
    engine = 2 =>
        \A k \in 1..Len(saved_domains) :
           LET frame == saved_domains[k]
           IN  /\ \A d, e \in 1..Len(frame) :
                     frame[d].var_id = frame[e].var_id => d = e
               /\ \A d \in 1..Len(frame) :
                     Domain(frame[d].type, frame[d].values) =
                         LevelEntryDomains(k)[frame[d].var_id]

\* A frame of level 2 or more holds the snapshot of a variable that an
\* earlier level had narrowed and that this level has narrowed again, after
\* a first candidate of the level was given up.
C24_Witness ==
    /\ engine = 2 /\ pc = "propagate" /\ Len(stack) >= 2 /\ Top.d_idx >= 1
    /\ Len(saved_domains) = Len(stack)
    /\ \E d \in 1..Len(saved_domains[Len(stack)]) :
          LET e == saved_domains[Len(stack)][d]
          IN  /\ Domain(e.type, e.values) # domains2[e.var_id]
              /\ current_domains[e.var_id] # Domain(e.type, e.values)

(***************************************************************************)
(* C25.  Step ordering for each candidate value in ForwardCheckingStep2:   *)
(* the variable is assigned, then its linked constraints are validated;    *)
(* propagation runs only if no validation returned Failed; the recursive   *)
(* call runs only if every propagation returned true; a value rejected by  *)
(* validation is unassigned without any domain being modified.             *)
(***************************************************************************)
\* No constraint linked to the variable of the running activation evaluates
\* to Failed.
Validated ==
    \A k \in 1..Len(vars2[Top.vid]) :
       TryEvaluate2(constraints2[vars2[Top.vid][k]], inst_vars) # "Failed"

C25_StepOrder ==
    [][engine = 2 =>
          /\ (pc = "loop" /\ pc' # "loop") =>
                \/ pc' = "return" /\ ~retval'
                \/ /\ pc' = "validate"
                   /\ inst_vars[Top.vid] = UNASSIGNED
                   /\ inst_vars'[Top.vid] # UNASSIGNED
                   /\ current_domains' = current_domains
          /\ pc = "validate" =>
                /\ current_domains' = current_domains
                /\ saved_domains' = saved_domains
                /\ IF Validated
                   THEN pc' = "propagate" /\ inst_vars' = inst_vars
                   ELSE /\ pc' = "loop"
                        /\ inst_vars' = [inst_vars EXCEPT ![Top.vid] = UNASSIGNED]
          /\ pc = "propagate" =>
                /\ inst_vars[Top.vid] # UNASSIGNED /\ Validated
                /\ pc' \in { "propagate", "call", "loop" }
          /\ (pc = "propagate" /\ pc' = "call") =>
                LET r == PropagateAll(vars2[Top.vid], 0, inst_vars,
                                      EntryDomains(Len(stack)), << << >> >>)
                IN  /\ r.ok /\ r.cd = current_domains
                    /\ Top.success /\ Top.c_idx = Len(vars2[Top.vid])
          /\ (pc = "call" /\ stack # << >>) =>
                inst_vars[Top.vid] # UNASSIGNED /\ Validated /\ Top.success]_vars

\* A recursive call is about to be made from a level of depth 2 or more whose
\* first candidate was rejected by validation and whose present candidate
\* passed validation and at least one propagation.
C25_Witness ==
    /\ engine = 2 /\ pc = "call" /\ Len(stack) >= 2
    /\ Top.type = Values /\ Top.d_idx >= 1 /\ Top.c_idx >= 1
    /\ ~ValidateConstraints2(constraints2, vars2[Top.vid],
           [inst_vars EXCEPT ![Top.vid] = current_domains[Top.vid].values[1]])

(***************************************************************************)
(* C26.  Frame of propagation: a propagation step of a solve changes only  *)
(* the current domains of unassigned variables that participate in the     *)
(* applied constraint, which is linked to the variable just assigned; the  *)
(* domain of an assigned variable, and of a variable sharing no constraint *)
(* with the just-assigned one, is left as it was.                          *)
(***************************************************************************)
\* The variables of a constraint of either generation.
ConVars(c) == SeqSet(LinkVars(c))

\* The variables sharing a constraint with vid.
Neighbours(vid) ==
    UNION { ConVars(constraints2[vars2[vid][k]]) : k \in 1..Len(vars2[vid]) }

C26_PropagationFrame ==
    [][(Propagate1 \/ Propagate2) =>
          /\ Top.vid \in ConVars(PropagatedCon)
          /\ inst_vars[Top.vid] # UNASSIGNED
          /\ \A vid \in DOMAIN current_domains :
                current_domains'[vid] # current_domains[vid] =>
                    /\ inst_vars[vid] = UNASSIGNED
                    /\ vid \in ConVars(PropagatedCon)
                    /\ vid \in Neighbours(Top.vid)]_vars

\* In a model of three variables a propagation from the second variable,
\* whose constraint also involves the assigned first variable, has changed a
\* domain.
C26_Witness ==
    /\ engine = 2 /\ pc = "propagate" /\ Len(stack) = 2 /\ Top.c_idx >= 1
    /\ NumVars = 3
    /\ LET c == constraints2[vars2[Top.vid][Top.c_idx]]
       IN  /\ ConVars(c) = { 0, 1, 2 }
           /\ current_domains[2] # EntryDomains(2)[2]

(***************************************************************************)
(* C27.  Frame-stack discipline: starting from a Reset state, whenever a   *)
(* call of ForwardCheckingStep or ForwardCheckingStep2 returns, true or    *)
(* false, the number of frames of saved_domains equals assigned_var_count; *)
(* in every intermediate state it is assigned_var_count or                 *)
(* assigned_var_count + 1; after a successful solve of N variables exactly *)
(* N frames remain.                                                        *)
(***************************************************************************)
C27_FrameStack ==
    /\ Len(saved_domains) \in { assigned_var_count, assigned_var_count + 1 }
    /\ pc = "return" => Len(saved_domains) = assigned_var_count
    /\ ReturnedTrue => Len(saved_domains) = NumVars
    /\ ReturnedFalse => Len(saved_domains) = 0

\* A solve of three variables has succeeded after a call at depth 2 or more
\* had returned false: its second variable does not hold the first value of
\* its domain.
C27_Witness ==
    /\ ReturnedTrue /\ NumVars = 3 /\ Len(saved_domains) = 3
    /\ domains2[1].type = Values
    /\ inst_vars[1] # domains2[1].values[1]
    /\ \E d \in 1..Len(saved_domains[2]) : saved_domains[2][d].var_id = 2

(***************************************************************************)
(* C28.  Termination: for every model with finitely many variables and     *)
(* finite initial domains, a call of ForwardCheckingStep2 from a Reset2    *)
(* state eventually returns, and it returns false only after every value   *)
(* of the domain of the first selected variable has been tried.            *)
(***************************************************************************)
\* The outermost activation gives up.
RootExhausted == Exhausted2 /\ Len(stack) = 1

C28_Termination ==
    /\ <>Done
    /\ [][/\ (engine = 2 /\ ~retval' /\ Done') => RootExhausted
          /\ RootExhausted =>
                /\ current_domains[Top.vid] = domains2[Top.vid]
                /\ Tried(Top, current_domains[Top.vid]) = DomainSeq(domains2[Top.vid])
                /\ Done' /\ ~retval']_vars

\* A solve over two values of the first variable has returned false.
C28_Witness ==
    /\ engine = 2 /\ ReturnedFalse
    /\ NumVars = 3 /\ Cardinality(DomainSet(domains2[0])) = 2

(***************************************************************************)
(* Vocabulary of the first-generation properties.                          *)
(***************************************************************************)
\* The relation "a op b".
Rel(op, a, b) ==
    CASE op = OpEqual -> a = b
      [] op = OpNotEqual -> a # b
      [] op = OpSupEqual -> a >= b
      [] op = OpSup -> a > b
      [] op = OpInfEqual -> a <= b
      [] op = OpInf -> a < b

\* The condition of a constraint is met on f: there is none, or the vid_if
\* variable is nonzero (AddConstraintIf), or it is zero (AddConstraintIfNot).
Enforced(con, f) ==
    \/ con.vid_if = INVALID
    \/ con.ifnot = 0 /\ f[con.vid_if] # 0
    \/ con.ifnot # 0 /\ f[con.vid_if] = 0

\* What a first-generation constraint demands of the values f.
Holds1(con, f) ==
    Enforced(con, f) =>
        Rel(con.op, f[con.vid1], f[con.vid2] * con.const_mul2 + con.const_add2)

\* The assignments of initial-domain values that satisfy every constraint.
Solutions1 ==
    { f \in InitialAssignments :
        \A k \in 1..Len(constraints2) : Holds1(constraints2[k], f) }

(***************************************************************************)
(* C29.  Soundness of the first-generation engine with conditional         *)
(* constraints: whenever ForwardCheckingStep returns true from a Reset     *)
(* state, every unconditional constraint "vid1 op vid2 * mul + add" holds  *)
(* on the assigned values, every AddConstraintIf constraint holds when its *)
(* vid_if variable is nonzero, and every AddConstraintIfNot constraint     *)
(* holds when its vid_ifnot variable is zero.                              *)
(***************************************************************************)
C29_Soundness1 ==
    (engine = 1 /\ ReturnedTrue) =>
        /\ IsComplete
        /\ \A vid \in DOMAIN inst_vars : inst_vars[vid] \in DomainSet(domains2[vid])
        /\ \A k \in 1..Len(constraints2) : Holds1(constraints2[k], inst_vars)

\* A solve of three variables has returned true with an AddConstraintIf
\* constraint whose condition is met and an AddConstraintIfNot constraint
\* whose condition is met.
C29_Witness ==
    /\ engine = 1 /\ ReturnedTrue /\ NumVars = 3 /\ Len(constraints2) = 2
    /\ \E k \in 1..2 :
          /\ constraints2[k].vid_if # INVALID /\ constraints2[k].ifnot = 0
          /\ inst_vars[constraints2[k].vid_if] # 0
    /\ \E k \in 1..2 :
          /\ constraints2[k].vid_if # INVALID /\ constraints2[k].ifnot # 0
          /\ inst_vars[constraints2[k].vid_if] = 0

(***************************************************************************)
(* C30.  Completeness of the first-generation engine: a propagation step   *)
(* removes from the domain of an unassigned variable only values that      *)
(* appear in no satisfying extension of the current partial assignment,    *)
(* and ForwardCheckingStep returns false from a Reset state only if no     *)
(* assignment of initial-domain values satisfies all constraints,          *)
(* conditional and unconditional.                                          *)
(***************************************************************************)
\* The solutions that agree with the values assigned so far.
Extensions ==
    { f \in Solutions1 :
        \A vid \in DOMAIN inst_vars :
           inst_vars[vid] # UNASSIGNED => f[vid] = inst_vars[vid] }

C30_Completeness1 ==
    /\ [](engine = 1 /\ ReturnedFalse => Solutions1 = {})
    /\ [][Propagate1 =>
             \A vid \in DOMAIN current_domains :
                \A val \in DomainSet(current_domains[vid])
                             \ DomainSet(current_domains'[vid]) :
                   /\ inst_vars[vid] = UNASSIGNED
                   /\ \A f \in Extensions : f[vid] # val]_vars

\* A solve of three variables has returned false on a model holding a
\* conditional constraint and an unconditional constraint between two
\* variables.
C30_Witness ==
    /\ engine = 1 /\ ReturnedFalse /\ NumVars = 3 /\ Len(constraints2) = 2
    /\ \E k \in 1..2 : constraints2[k].vid_if # INVALID
    /\ \E k \in 1..2 : constraints2[k].vid_if = INVALID /\ constraints2[k].vid1 # constraints2[k].vid2

=============================================================================
